---- MODULE Spec2Model ----
(***************************************************************************)
(* Model of the axum-connect request adapters: content negotiation,        *)
(* request decoding, the unary and server-streaming handler adapters and   *)
(* the response encoder.                                                   *)
(*                                                                         *)
(* Bytes are integers 0..255.  JSON texts are written one byte per JSON    *)
(* token ('{' is 123, '}' is 125); a string inside a JSON text (an error   *)
(* code, an error message) is one byte.                                    *)
(***************************************************************************)
EXTENDS Integers, Sequences, FiniteSets, TLC

\* Largest value of the single field of a request or response message.
MaxField == 1
\* Largest number of items the handler's sequence produces.
MaxItems == 2
\* Largest number of context extractors a handler declares.
MaxExtractors == 2
\* Largest number of methods of a service handed to the generator.
MaxMethods == 2

(***************************************************************************)
(* Error model                                                             *)
(***************************************************************************)
RpcErrorCode ==
    << "Canceled", "Unknown", "InvalidArgument", "DeadlineExceeded", "NotFound",
       "AlreadyExists", "PermissionDenied", "ResourceExhausted",
       "FailedPrecondition", "Aborted", "OutOfRange", "Unimplemented",
       "Internal", "Unavailable", "DataLoss", "Unauthenticated" >>

Codes == { RpcErrorCode[i] : i \in 1..Len(RpcErrorCode) }

StatusCodeFromSwapped(val) ==
    CASE val = "Canceled" -> 408
      [] val = "Unknown" -> 500
      [] val = "InvalidArgument" -> 400
      [] val = "DeadlineExceeded" -> 408
      [] val = "NotFound" -> 404
      [] val = "AlreadyExists" -> 409
      [] val = "PermissionDenied" -> 403
      [] val = "ResourceExhausted" -> 429
      [] val = "FailedPrecondition" -> 412
      [] val = "Aborted" -> 409
      [] val = "OutOfRange" -> 400
      [] val = "Unimplemented" -> 501
      [] val = "Internal" -> 500
      [] val = "Unavailable" -> 503
      [] val = "DataLoss" -> 500
      [] val = "Unauthenticated" -> 401

\* impl From<RpcErrorCode> for StatusCode
StatusCodeFrom(val) ==
    CASE val = "Canceled" -> 408
      [] val = "Unknown" -> 500
      [] val = "InvalidArgument" -> 400
      [] val = "DeadlineExceeded" -> 408
      [] val = "NotFound" -> 404
      [] val = "AlreadyExists" -> 409
      [] val = "PermissionDenied" -> 403
      [] val = "ResourceExhausted" -> 429
      [] val = "FailedPrecondition" -> 412
      [] val = "Aborted" -> 409
      [] val = "OutOfRange" -> 400
      [] val = "Unimplemented" -> 404
      [] val = "Internal" -> 500
      [] val = "Unavailable" -> 503
      [] val = "DataLoss" -> 500
      [] val = "Unauthenticated" -> 401

\* RpcError::new(code, message): an error with no details.
RpcErrorNew(code, message) == [code |-> code, message |-> message, details |-> <<>>]

\* The byte that stands for an error code inside a JSON text.
CodeByte(code) == CHOOSE i \in 1..Len(RpcErrorCode) : RpcErrorCode[i] = code

\* The byte that stands for an error message inside a JSON text.
MessageByte(message) ==
    CASE message = "" -> 34
      [] message = "Missing query" -> 65
      [] message = "Wrong query" -> 66
      [] message = "Wrong or unknown query.encoding" -> 67
      [] message = "Unsupported protocol version" -> 68
      [] message = "Wrong or unknown Content-Type" -> 69
      [] message = "Missing Content-Type header" -> 70
      [] message = "Wrong query.message" -> 71
      [] message = "Failed to decode binary protobuf" -> 72
      [] message = "Failed to decode json" -> 73
      [] message = "Failed to read request body" -> 74
      [] message = "Failed to decode JSON protobuf" -> 75
      [] message = "Failed to serialize response" -> 76
      [] message = "encode error" -> 77
      [] message = "rejection" -> 78
      [] message = "handler error" -> 79

\* #[derive(Serialize)] struct RpcError { code, message, details }: the JSON
\* object {code, message, details}.
ErrorJson(error) ==
    <<123, CodeByte(error.code), MessageByte(error.message), 91>>
        \o error.details \o <<93, 125>>

(***************************************************************************)
(* Messages and their two encodings                                        *)
(***************************************************************************)
\* Request messages: one integer field, 0 is the default value.
ReqMessages == 0..MaxField
\* Response messages: the same, and one message whose JSON serialization fails.
Unserializable == -1
ResMessages == (0..MaxField) \cup {Unserializable}

\* prost::Message::encode: protobuf binary, a default field is not written.
EncodeBinary(m) ==
    IF m = Unserializable THEN <<21, 0, 0, 192, 127>>
    ELSE IF m = 0 THEN <<>> ELSE <<8, m>>

\* serde_json serialization of a message: fails on the unserializable message.
JsonEncodable(m) == m # Unserializable
EncodeJson(m) == IF m = 0 THEN <<123, 125>> ELSE <<123, 118, 48 + m, 125>>

Ok(v) == [ok |-> TRUE, value |-> v]
Err(e) == [ok |-> FALSE, error |-> e]
Some(v) == [some |-> TRUE, value |-> v]
NoValue == [some |-> FALSE]

\* M::decode: protobuf binary decoding; the explicit default <<8, 0>> is accepted.
DecodeBinary(bytes) ==
    IF bytes = <<>> THEN Ok(0)
    ELSE IF Len(bytes) = 2 /\ bytes[1] = 8 /\ bytes[2] \in ReqMessages THEN Ok(bytes[2])
    ELSE Err("decode")

\* serde_json::from_slice: JSON decoding.
DecodeJson(bytes) ==
    IF bytes = <<123, 125>> THEN Ok(0)
    ELSE IF Len(bytes) = 4 /\ bytes[1] = 123 /\ bytes[2] = 118 /\ bytes[4] = 125
            /\ bytes[3] - 48 \in ReqMessages
         THEN Ok(bytes[3] - 48)
    ELSE Err("decode")

(***************************************************************************)
(* Response encoder                                                        *)
(***************************************************************************)
\* u32::to_be_bytes
to_be_bytes(n) ==
    << (n \div 16777216) % 256, (n \div 65536) % 256, (n \div 256) % 256, n % 256 >>

\* ResponseEncoder::new / ResponseEncoder::empty
ResponseEncoderNew(streaming, binary) ==
    [streaming |-> streaming, binary |-> binary, error |-> NoValue, message |-> NoValue]

\* ResponseEncoder::err
WithErr(enc, error) == [enc EXCEPT !.error = Some(error)]

\* ResponseEncoder::message
WithMessage(enc, message) == [enc EXCEPT !.message = Some(message)]

status_code_ignoring_shape(enc) ==
    IF enc.error.some THEN StatusCodeFrom(enc.error.value.code) ELSE 200

\* ResponseEncoder::status_code
status_code(enc) ==
    IF enc.streaming THEN 200
    ELSE IF enc.error.some THEN StatusCodeFrom(enc.error.value.code) ELSE 200

\* ResponseEncoder::content_type
content_type(enc) ==
    CASE enc.streaming /\ ~enc.binary -> "application/connect+json"
      [] enc.streaming /\ enc.binary -> "application/connect+proto"
      [] ~enc.streaming /\ enc.error.some -> "application/json"
      [] ~enc.streaming /\ ~enc.binary /\ ~enc.error.some -> "application/json"
      [] ~enc.streaming /\ enc.binary /\ ~enc.error.some -> "application/proto"

\* struct EndOfStream { error }: the JSON object {"error": <error>}.
EndOfStreamJson(error) == <<123, 101>> \o ErrorJson(error) \o <<125>>

\* ResponseEncoder::encode_message_end
encode_message_end(enc) ==
    IF enc.error.some
    THEN IF enc.streaming
         THEN LET payload == EndOfStreamJson(enc.error.value)
              IN  <<2>> \o to_be_bytes(Len(payload)) \o payload
         ELSE ErrorJson(enc.error.value)
    ELSE IF enc.streaming THEN <<2, 0, 0, 0, 2, 123, 125>>
    ELSE <<>>

\* ResponseEncoder::encode_message_enveloped: the bytes of the frame.
encode_message_enveloped(enc, message) ==
    IF ~enc.binary /\ ~JsonEncodable(message)
    THEN encode_message_end(WithErr(enc, RpcErrorNew("Internal", "encode error")))
    ELSE LET payload == IF enc.binary THEN EncodeBinary(message)
                        ELSE EncodeJson(message)
         IN  <<0>> \o to_be_bytes(Len(payload)) \o payload

encode_message_unary_enveloped(enc, message) ==
    LET payload == IF enc.binary THEN EncodeBinary(message) ELSE EncodeJson(message)
    IN  <<0>> \o to_be_bytes(Len(payload)) \o payload

\* ResponseEncoder::encode_message_unary: the bytes of the body.
encode_message_unary(enc, message) ==
    IF enc.binary THEN EncodeBinary(message)
    ELSE IF JsonEncodable(message) THEN EncodeJson(message)
    ELSE encode_message_end(
             WithErr(enc, RpcErrorNew("Internal", "Failed to serialize response")))

\* ResponseEncoder::encode_body_unary
encode_body_unary(enc) ==
    IF enc.message.some THEN encode_message_unary(enc, enc.message.value)
    ELSE encode_message_end(enc)

\* ResponseEncoder::encode_body_streaming, for an encoder that holds no stream
\* (the only way the adapters use it): the end message alone.
encode_body_streaming(enc) == encode_message_end(enc)

\* ResponseEncoder::encode_body
encode_body(enc) ==
    IF enc.streaming THEN encode_body_streaming(enc) ELSE encode_body_unary(enc)

\* ResponseEncoder::encode_response: the status and the Content-Type are read
\* before the body is encoded.
encode_response(enc) ==
    [status |-> status_code(enc),
     content_type |-> content_type(enc),
     body |-> <<encode_body(enc)>>]

\* codec::encode_error, called by the streaming adapter.
encode_error(e, for_streaming) ==
    IF for_streaming
    THEN LET payload == EndOfStreamJson(e)
         IN  <<2>> \o to_be_bytes(Len(payload)) \o payload
    ELSE ErrorJson(e)

\* codec::encode_error_response, called by the streaming adapter.
encode_error_response(e, write_binary, for_streaming) ==
    [status |-> IF for_streaming THEN 200 ELSE StatusCodeFrom(e.code),
     content_type |->
        IF for_streaming
        THEN IF write_binary THEN "application/connect+proto"
             ELSE "application/connect+json"
        ELSE "application/json",
     body |-> <<encode_error(e, for_streaming)>>]

(***************************************************************************)
(* Content negotiation                                                     *)
(*                                                                         *)
(* A header value is [state, value]: state is "absent", "non-text" (bytes  *)
(* that HeaderValue::to_str rejects) or "text"; a text value is a sequence *)
(* of tokens (a media type in some letter case, ";", " ", a parameter).    *)
(***************************************************************************)
Header(state, value) == [state |-> state, value |-> value]

\* HeaderValue::to_str().unwrap_or_default()
to_str_or_default(h) == IF h.state = "text" THEN h.value ELSE <<>>

\* str::to_lowercase, token by token.
LowerToken(t) ==
    CASE t = "APPLICATION/JSON" -> "application/json"
      [] t = "Application/Proto" -> "application/proto"
      [] t = "Application/Connect+JSON" -> "application/connect+json"
      [] t = "APPLICATION/CONNECT+PROTO" -> "application/connect+proto"
      [] t = "Charset=UTF-8" -> "charset=utf-8"
      [] OTHER -> t
to_lowercase(s) == [i \in DOMAIN s |-> LowerToken(s[i])]

\* str::split(';').next(): what precedes the first ';'.
split_first(s) ==
    IF \E i \in DOMAIN s : s[i] = ";"
    THEN SubSeq(s, 1, (CHOOSE i \in DOMAIN s :
                          s[i] = ";" /\ \A j \in 1..(i - 1) : s[j] # ";") - 1)
    ELSE s

no_trim(s) == s

\* str::trim: white space removed at both ends.
trim(s) ==
    IF \A i \in DOMAIN s : s[i] = " " THEN <<>>
    ELSE LET first == CHOOSE i \in DOMAIN s :
                          s[i] # " " /\ \A j \in 1..(i - 1) : s[j] = " "
             last == CHOOSE i \in DOMAIN s :
                          s[i] # " " /\ \A j \in (i + 1)..Len(s) : s[j] = " "
         IN  SubSeq(s, first, last)

\* The media type decode_check_headers matches on.
media_type(content_type_header) ==
    trim(split_first(to_lowercase(to_str_or_default(content_type_header))))

\* A negotiation result: Ok(ReqResInto { binary }) or Err(response).
Negotiated(binary) == [ok |-> TRUE, binary |-> binary]
Rejected(response) == [ok |-> FALSE, response |-> response]

version_unsupported_text_only(version) ==
    version.state = "text" /\ version.value # <<"1">>

\* The check of the connect-protocol-version header: the header is given and
\* its text, the empty text for a value that is no text, is not "1".
version_unsupported(version) ==
    version.state # "absent" /\ to_str_or_default(version) # <<"1">>

\* decode_check_headers
decode_check_headers(parts, for_streaming) ==
    IF version_unsupported(parts.version)
    THEN Rejected(encode_response(WithErr(ResponseEncoderNew(for_streaming, TRUE),
             RpcErrorNew("InvalidArgument", "Unsupported protocol version"))))
    ELSE IF parts.content_type.state = "absent"
    THEN Rejected(encode_response(WithErr(ResponseEncoderNew(TRUE, TRUE),
             RpcErrorNew("InvalidArgument", "Missing Content-Type header"))))
    ELSE LET s == media_type(parts.content_type)
         IN  CASE s = <<"application/json">> /\ ~for_streaming -> Negotiated(FALSE)
               [] s = <<"application/proto">> /\ ~for_streaming -> Negotiated(TRUE)
               [] s = <<"application/connect+json">> /\ for_streaming -> Negotiated(FALSE)
               [] s = <<"application/connect+proto">> /\ for_streaming -> Negotiated(TRUE)
               [] OTHER ->
                    Rejected(encode_response(WithErr(ResponseEncoderNew(TRUE, TRUE),
                        RpcErrorNew("InvalidArgument", "Wrong or unknown Content-Type"))))

(***************************************************************************)
(* A query string is [present, message, encoding, base64]: message and     *)
(* encoding are optional values (bytes, a word), base64 is the text of     *)
(* the base64 parameter ("" when the parameter is not given).              *)
(***************************************************************************)
NoQuery == [present |-> FALSE]
Query(message, encoding, base64) ==
    [present |-> TRUE, message |-> message, encoding |-> encoding, base64 |-> base64]

\* Parsing of the base64 parameter as Option<usize>.
ParseUsize(text) ==
    CASE text = "" -> Ok(NoValue)
      [] text = "0" -> Ok(Some(0))
      [] text = "1" -> Ok(Some(1))
      [] text = "2" -> Ok(Some(2))
      [] OTHER -> Err("invalid digit")

ParseUnaryGetQueryEncodingOptional(q) ==
    IF ~q.message.some \/ ~ParseUsize(q.base64).ok
    THEN Err("serde_qs")
    ELSE Ok([message |-> q.message.value,
             encoding |-> IF q.encoding.some THEN q.encoding.value ELSE "",
             base64 |-> ParseUsize(q.base64).value])

\* serde_qs::from_str::<UnaryGetQuery>: message and encoding are required,
\* base64 is an optional number.
ParseUnaryGetQuery(q) ==
    IF ~q.message.some \/ ~q.encoding.some \/ ~ParseUsize(q.base64).ok
    THEN Err("serde_qs")
    ELSE Ok([message |-> q.message.value, encoding |-> q.encoding.value,
             base64 |-> ParseUsize(q.base64).value])

\* decode_check_query
decode_check_query(parts) ==
    IF ~parts.query.present
    THEN Rejected(encode_response(WithErr(ResponseEncoderNew(FALSE, FALSE),
             RpcErrorNew("InvalidArgument", "Missing query"))))
    ELSE IF ~ParseUnaryGetQuery(parts.query).ok
    THEN Rejected(encode_response(WithErr(ResponseEncoderNew(FALSE, FALSE),
             RpcErrorNew("InvalidArgument", "Wrong query"))))
    ELSE LET encoding == ParseUnaryGetQuery(parts.query).value.encoding
         IN  CASE encoding = "json" -> Negotiated(FALSE)
               [] encoding = "proto" -> Negotiated(TRUE)
               [] OTHER ->
                    Rejected(encode_response(WithErr(ResponseEncoderNew(TRUE, TRUE),
                        RpcErrorNew("InvalidArgument", "Wrong or unknown query.encoding"))))

(***************************************************************************)
(* Request decoder                                                         *)
(***************************************************************************)
\* The value of a character of the URL-safe base64 alphabet, -1 for any other.
B64Value(c) ==
    CASE c >= 65 /\ c <= 90 -> c - 65
      [] c >= 97 /\ c <= 122 -> c - 71
      [] c >= 48 /\ c <= 57 -> c + 4
      [] c = 45 -> 62
      [] c = 95 -> 63
      [] OTHER -> -1

\* The bytes of one group of four characters; <<-1>> when the group is invalid.
\* Padding is allowed in the last group only and must be canonical.
B64Group(a, b, c, d, last) ==
    LET va == B64Value(a)
        vb == B64Value(b)
        vc == B64Value(c)
        vd == B64Value(d)
    IN  IF va < 0 \/ vb < 0 THEN <<-1>>
        ELSE IF c = 61 /\ d = 61
        THEN IF last /\ vb % 16 = 0 THEN <<va * 4 + vb \div 16>> ELSE <<-1>>
        ELSE IF d = 61
        THEN IF last /\ vc >= 0 /\ vc % 4 = 0
             THEN <<va * 4 + vb \div 16, (vb % 16) * 16 + vc \div 4>>
             ELSE <<-1>>
        ELSE IF vc < 0 \/ vd < 0 THEN <<-1>>
        ELSE <<va * 4 + vb \div 16, (vb % 16) * 16 + vc \div 4, (vc % 4) * 64 + vd>>

RECURSIVE B64Groups(_)
B64Groups(s) ==
    IF s = <<>> THEN <<>>
    ELSE LET g == B64Group(s[1], s[2], s[3], s[4], Len(s) = 4)
             rest == B64Groups(SubSeq(s, 5, Len(s)))
         IN  IF g = <<-1>> \/ rest = <<-1>> THEN <<-1>> ELSE g \o rest

Base64DecodeNoPad(s) ==
    LET padded == s \o (CASE Len(s) % 4 = 2 -> <<61, 61>>
                          [] Len(s) % 4 = 3 -> <<61>>
                          [] OTHER -> <<>>)
    IN  IF \E i \in DOMAIN s : s[i] = 61 THEN Err("padding")
        ELSE IF Len(padded) % 4 # 0 THEN Err("length")
        ELSE IF B64Groups(padded) = <<-1>> THEN Err("symbol")
        ELSE Ok(B64Groups(padded))

\* general_purpose::URL_SAFE.decode
Base64Decode(s) ==
    IF Len(s) % 4 # 0 THEN Err("length")
    ELSE IF B64Groups(s) = <<-1>> THEN Err("symbol") ELSE Ok(B64Groups(s))

\* The outcome of decoding a request: the message, an error response, or a panic.
Decoded(m) == [outcome |-> "ok", message |-> m]
DecodeRejected(response) == [outcome |-> "err", response |-> response]
Panicked == [outcome |-> "panic"]

\* The common tail of both decoders: M::decode or serde_json::from_slice.
decode_message(bytes, as_binary, for_streaming, json_message) ==
    LET r == IF as_binary THEN DecodeBinary(bytes) ELSE DecodeJson(bytes)
    IN  IF r.ok THEN Decoded(r.value)
        ELSE DecodeRejected(encode_response(
                 WithErr(ResponseEncoderNew(for_streaming, as_binary),
                     RpcErrorNew("InvalidArgument",
                         IF as_binary THEN "Failed to decode binary protobuf"
                         ELSE json_message))))

\* decode_request_payload_from_query
decode_request_payload_from_query(parts, as_binary) ==
    IF ~parts.query.present
    THEN DecodeRejected(encode_response(WithErr(ResponseEncoderNew(FALSE, FALSE),
             RpcErrorNew("InvalidArgument", "Missing query"))))
    ELSE IF ~ParseUnaryGetQuery(parts.query).ok
    THEN DecodeRejected(encode_response(WithErr(ResponseEncoderNew(FALSE, FALSE),
             RpcErrorNew("InvalidArgument", "Wrong query"))))
    ELSE LET query == ParseUnaryGetQuery(parts.query).value
         IN  IF query.base64 = Some(1)
             THEN IF Base64Decode(query.message).ok
                  THEN decode_message(Base64Decode(query.message).value, as_binary,
                           FALSE, "Failed to decode json")
                  ELSE DecodeRejected(encode_response(
                           WithErr(ResponseEncoderNew(FALSE, FALSE),
                               RpcErrorNew("InvalidArgument", "Wrong query.message"))))
             ELSE decode_message(query.message, as_binary, FALSE,
                      "Failed to decode json")

\* Bytes::slice(5..) of a streaming body, Bytes::slice(0..) of a unary body.
\* A range that starts beyond the end of the buffer panics.
slice_panics(bytes, for_streaming) == for_streaming /\ Len(bytes) < 5
slice_whole(bytes, for_streaming) == bytes
slice(bytes, for_streaming) ==
    IF for_streaming THEN SubSeq(bytes, 6, Len(bytes)) ELSE bytes

decode_request_payload_failed_precondition(bytes, read_ok, as_binary, for_streaming) ==
    IF ~read_ok
    THEN DecodeRejected(encode_response(
             WithErr(ResponseEncoderNew(for_streaming, as_binary),
                 RpcErrorNew("FailedPrecondition", "Failed to read request body"))))
    ELSE IF slice_panics(bytes, for_streaming) THEN Panicked
    ELSE decode_message(slice(bytes, for_streaming), as_binary, for_streaming,
             "Failed to decode JSON protobuf")

\* decode_request_payload
decode_request_payload(bytes, read_ok, as_binary, for_streaming) ==
    IF ~read_ok
    THEN DecodeRejected(encode_response(
             WithErr(ResponseEncoderNew(for_streaming, as_binary),
                 RpcErrorNew("InvalidArgument", "Failed to read request body"))))
    ELSE IF slice_panics(bytes, for_streaming) THEN Panicked
    ELSE decode_message(slice(bytes, for_streaming), as_binary, for_streaming,
             "Failed to decode JSON protobuf")

(***************************************************************************)
(* The requests, handler results and stream items the adapters are given   *)
(***************************************************************************)
Versions ==
    { Header("absent", <<>>), Header("text", <<"1">>), Header("text", <<"2">>),
      Header("text", <<>>), Header("non-text", <<>>) }

MediaTokens ==
    { "application/json", "application/proto", "application/connect+json",
      "application/connect+proto", "text/plain", "APPLICATION/JSON",
      "Application/Proto", "Application/Connect+JSON", "APPLICATION/CONNECT+PROTO" }

ContentTypes ==
    { Header("absent", <<>>), Header("non-text", <<>>), Header("text", <<>>) }
    \cup { Header("text", <<t>>) : t \in MediaTokens }
    \cup { Header("text", <<t, ";", "charset=utf-8">>) : t \in MediaTokens }
    \cup { Header("text", <<t, " ", ";", " ", "Charset=UTF-8">>) : t \in MediaTokens }
    \cup { Header("text", <<";", t>>) : t \in MediaTokens }

\* Texts of the message parameter: "{}", its base64 "e30=", the binary message
\* of field value 1, its base64 "CAE=", and texts that decode to nothing.
QueryMessages ==
    { <<>>, <<123, 125>>, <<101, 51, 48, 61>>, <<8, 1>>, <<67, 65, 69, 61>>,
      <<101, 51, 48>>, <<33, 33, 33, 33>> }

Queries ==
    { NoQuery }
    \cup { Query(NoValue, Some("json"), ""), Query(Some(<<123, 125>>), NoValue, ""),
           Query(Some(<<123, 125>>), Some("json"), "x") }
    \cup { Query(Some(m), Some(e), b) :
              m \in QueryMessages, e \in {"json", "proto", "xml"}, b \in {"", "0", "1"} }

Parts(method, version, content_type_header, query) ==
    [method |-> method, version |-> version, content_type |-> content_type_header,
     query |-> query]

Requests ==
    { Parts(m, v, c, NoQuery) : m \in {"POST", "PUT"}, v \in Versions, c \in ContentTypes }
    \cup { Parts("GET", v, c, q) :
              v \in {Header("absent", <<>>), Header("text", <<"2">>)},
              c \in {Header("absent", <<>>), Header("text", <<"text/plain">>)},
              q \in Queries }

\* Request bodies: encodings of the request messages, plain and behind a
\* 5-byte envelope header, and bodies that are no message.
Bodies ==
    { EncodeBinary(m) : m \in ReqMessages } \cup { EncodeJson(m) : m \in ReqMessages }
    \cup { <<0>> \o to_be_bytes(Len(EncodeBinary(m))) \o EncodeBinary(m) : m \in ReqMessages }
    \cup { <<0>> \o to_be_bytes(Len(EncodeJson(m))) \o EncodeJson(m) : m \in ReqMessages }
    \cup { <<255>>, <<1, 2, 3, 4>>, <<2, 9, 9, 9, 9, 123, 125>> }

\* Errors a context extractor rejects with.
Rejections ==
    { RpcErrorNew("Internal", "rejection"), RpcErrorNew("Unauthenticated", "rejection") }

\* What a context extractor returns: a value or a rejection.
ExtractorOutcomes == {Ok(0)} \cup { Err(e) : e \in Rejections }

\* What a handler returns, after rpc_into_response: Ok(message) or Err(error).
HandlerErrors == { RpcErrorNew(c, "handler error") : c \in Codes }
HandlerResults == { Ok(m) : m \in ResMessages } \cup { Err(e) : e \in HandlerErrors }

(***************************************************************************)
(* State                                                                   *)
(***************************************************************************)
VARIABLES
    kind,           \* the declared shape of the method: "unary" or "stream"
    n_extractors,   \* the number of context extractors the handler declares
    parts,          \* the head of the request being handled
    body,           \* the request body, once read
    pc,             \* where the call is
    binary,         \* ReqResInto.binary, once negotiated
    extracted,      \* the number of extractors that have run
    proto_req,      \* the decoded request message
    handler_calls,  \* how often the user handler was invoked
    log,            \* the steps of the call, in the order they ran
    response,       \* the HTTP response; body is the sequence of chunks sent
    produced,       \* the items the handler's sequence has produced
    demand,         \* the consumer of the response body awaits its next chunk
    requested,      \* how often the handler's sequence was asked for an item
    transport,      \* where negotiation and decoding took their parameters from
    env,            \* what the extractors and the read of the body returned
    other,          \* the call of a second request, suspended at an await
    applied,        \* a function of the library applied on its own: its argument
    result          \* and what it returned

\* The variables of the call that is running.
call_vars ==
    << kind, n_extractors, parts, body, pc, binary, extracted, proto_req,
       handler_calls, log, response, produced, demand, requested, transport, env >>

vars == << call_vars, other, applied, result >>

NoParts == Parts("", Header("absent", <<>>), Header("absent", <<>>), NoQuery)
NoResponse == [status |-> 0, content_type |-> "", body |-> <<>>]
Step(name, index) == [step |-> name, index |-> index]
NoTransport == [negotiate |-> "", decode |-> ""]
NoEnv == [extract |-> <<>>, read |-> "", ended |-> FALSE]
NoCall == [pc |-> "none"]
NotApplied == [op |-> "none"]

\* A call before its request arrives, for a method of one of the given shapes
\* whose handler declares one of the given numbers of extractors.
InitCall(kinds, arities) ==
    /\ kind \in kinds
    /\ n_extractors \in arities
    /\ parts = NoParts
    /\ body = <<>>
    /\ pc = "idle"
    /\ binary = FALSE
    /\ extracted = 0
    /\ proto_req = NoValue
    /\ handler_calls = 0
    /\ log = <<>>
    /\ response = NoResponse
    /\ produced = <<>>
    /\ demand = FALSE
    /\ requested = 0
    /\ transport = NoTransport
    /\ env = NoEnv

Init ==
    /\ InitCall({"unary", "stream"}, 0..MaxExtractors)
    /\ other = NoCall
    /\ applied = NotApplied
    /\ result = NotApplied

(***************************************************************************)
(* The unary and the server-streaming adapter                              *)
(***************************************************************************)
\* The early returns of RpcHandlerUnary::call and RpcHandlerStream::call: a
\* failed step returns its response, a successful one goes on to `next`.
continue_after_failure(ok, next) == next
after_step(ok, next) == IF ok THEN next ELSE "done"

\* The router hands a request to the adapter: req.into_parts().
ReceiveFrom(requests) ==
    /\ pc = "idle"
    /\ \E p \in requests : parts' = p
    /\ pc' = "negotiate"
    /\ UNCHANGED << kind, n_extractors, body, binary, extracted, proto_req,
                    handler_calls, log, response, produced, demand, requested,
                    transport, env, other, applied, result >>

Receive == ReceiveFrom(Requests)

negotiate_version_checked(k, p) ==
    IF k = "unary"
    THEN IF p.method = "GET"
         THEN IF version_unsupported(p.version)
              THEN decode_check_headers(p, FALSE)
              ELSE decode_check_query(p)
         ELSE decode_check_headers(p, FALSE)
    ELSE decode_check_headers(p, TRUE)

\* The negotiation the adapter runs: decode_check_query for a GET request to a
\* unary method, decode_check_headers otherwise.
negotiate(k, p) ==
    IF k = "unary"
    THEN IF p.method = "GET" THEN decode_check_query(p)
         ELSE decode_check_headers(p, FALSE)
    ELSE decode_check_headers(p, TRUE)

Negotiate ==
    /\ pc = "negotiate"
    /\ LET r == negotiate(kind, parts)
       IN  /\ binary' = IF r.ok THEN r.binary ELSE binary
           /\ response' = IF r.ok THEN response ELSE r.response
           /\ pc' = after_step(r.ok, "extract")
    /\ log' = Append(log, Step("negotiate", 0))
    /\ transport' = [transport EXCEPT !.negotiate =
                        IF kind = "unary" /\ parts.method = "GET" THEN "query"
                        ELSE "headers"]
    /\ UNCHANGED << kind, n_extractors, parts, body, extracted, proto_req,
                    handler_calls, produced, demand, requested, env, other,
                    applied, result >>

\* The response to a rejection of a context extractor.
rejection_response(k, as_binary, e) ==
    IF k = "unary"
    THEN encode_response(WithErr(ResponseEncoderNew(FALSE, as_binary), e))
    ELSE encode_error_response(e, as_binary, TRUE)

\* What an extractor does to the &mut Parts it is given: it leaves them as they
\* are ("keep") or it writes the method.
rewritten(p, rewrite) ==
    IF rewrite = "keep" THEN p ELSE [p EXCEPT !.method = rewrite]

\* One context extractor runs: rpc_from_request_parts, in declared order.
ExtractWith(outcomes, rewrites) ==
    /\ pc = "extract"
    /\ extracted < n_extractors
    /\ \E r \in outcomes, w \in rewrites :
          /\ response' = IF r.ok THEN response
                         ELSE rejection_response(kind, binary, r.error)
          /\ pc' = after_step(r.ok, "extract")
          /\ env' = [env EXCEPT !.extract = Append(@, r)]
          /\ parts' = rewritten(parts, w)
    /\ extracted' = extracted + 1
    /\ log' = Append(log, Step("extract", extracted + 1))
    /\ UNCHANGED << kind, n_extractors, body, binary, proto_req, handler_calls,
                    produced, demand, requested, transport, other, applied,
                    result >>

\* The extractors of the library and of well-behaved applications read the
\* parts and leave the method alone.
Extract == ExtractWith(ExtractorOutcomes, {"keep"})

\* The request decoder the adapter runs once every extractor has succeeded.
decode(k, p, bytes, read_ok, as_binary) ==
    IF k = "unary"
    THEN IF p.method = "GET" THEN decode_request_payload_from_query(p, as_binary)
         ELSE decode_request_payload(bytes, read_ok, as_binary, FALSE)
    ELSE decode_request_payload(bytes, read_ok, as_binary, TRUE)

decoder_may_run_first(n_extracted, n) == n_extracted = 0

\* Where the adapter calls the request decoder: below the block of the
\* extractors, once each of them has returned Ok.
decoder_may_run(n_extracted, n) == n_extracted = n

DecodeFrom(bodies) ==
    /\ pc = "extract"
    /\ decoder_may_run(extracted, n_extractors)
    /\ \E bytes \in bodies, read_ok \in BOOLEAN :
          LET r == decode(kind, parts, bytes, read_ok, binary)
              from_query == kind = "unary" /\ parts.method = "GET"
          IN  /\ body' = IF from_query \/ ~read_ok THEN body ELSE bytes
              /\ proto_req' = IF r.outcome = "ok" THEN Some(r.message) ELSE proto_req
              /\ response' = IF r.outcome = "err" THEN r.response ELSE response
              /\ pc' = IF r.outcome = "panic" THEN "panicked"
                       ELSE after_step(r.outcome = "ok", "handler")
              /\ transport' = [transport EXCEPT !.decode =
                                  IF from_query THEN "query" ELSE "body"]
              /\ env' = [env EXCEPT !.read =
                            IF from_query THEN "query"
                            ELSE IF read_ok THEN "ok" ELSE "failed"]
    /\ log' = Append(log, Step("decode", 0))
    /\ UNCHANGED << kind, n_extractors, parts, binary, extracted, handler_calls,
                    produced, demand, requested, other, applied, result >>

Decode == DecodeFrom(Bodies)

\* The response of a unary call to what the handler returned.
unary_response(as_binary, res) ==
    IF res.ok
    THEN encode_response(WithMessage(ResponseEncoderNew(FALSE, as_binary), res.value))
    ELSE encode_response(WithErr(ResponseEncoderNew(FALSE, as_binary), res.error))

\* The user handler of a unary method runs and its result is encoded.
UnaryHandlerWith(results) ==
    /\ pc = "handler"
    /\ kind = "unary"
    /\ \E res \in results :
          /\ produced' = <<res>>
          /\ response' = unary_response(binary, res)
    /\ handler_calls' = handler_calls + 1
    /\ log' = log \o << Step("handler", 0), Step("encode", 0) >>
    /\ pc' = "done"
    /\ UNCHANGED << kind, n_extractors, parts, body, binary, extracted, proto_req,
                    demand, requested, transport, env, other, applied, result >>

UnaryHandler == UnaryHandlerWith(HandlerResults)

stream_response_head_json(as_binary) ==
    [status |-> 200, content_type |-> "application/connect+json", body |-> <<>>]

\* The head of a streaming response: status 200 and the streaming Content-Type.
stream_response_head(as_binary) ==
    [status |-> 200,
     content_type |-> IF as_binary THEN "application/connect+proto"
                      ELSE "application/connect+json",
     body |-> <<>>]

\* The user handler of a server-streaming method runs and returns its
\* sequence; the response is returned with a body that is yet to be polled.
StreamHandler ==
    /\ pc = "handler"
    /\ kind = "stream"
    /\ handler_calls' = handler_calls + 1
    /\ log' = Append(log, Step("handler", 0))
    /\ response' = stream_response_head(binary)
    /\ pc' = "streaming"
    /\ UNCHANGED << kind, n_extractors, parts, body, binary, extracted, proto_req,
                    produced, demand, requested, transport, env, other, applied,
                    result >>

\* The frame the stream! block yields for a message: the header it starts
\* from, the encoded message, and the length written into bytes 1 to 4.
message_frame(as_binary, m) ==
    LET payload == IF as_binary THEN EncodeBinary(m) ELSE EncodeJson(m)
    IN  <<2>> \o to_be_bytes(Len(payload)) \o payload

\* Whether encoding the message fails: prost's encode into a Vec does not,
\* serde_json::to_writer may.
message_encode_fails(as_binary, m) == ~as_binary /\ ~JsonEncodable(m)

\* The chunk the stream! block yields for an item of the sequence.
item_chunk(as_binary, item) ==
    IF item.ok
    THEN IF message_encode_fails(as_binary, item.value)
         THEN encode_error(RpcErrorNew("Internal", "encode error"), TRUE)
         ELSE message_frame(as_binary, item.value)
    ELSE encode_error(item.error, as_binary)

item_breaks_never(as_binary, item) == FALSE

item_breaks_on_error_only(as_binary, item) == ~item.ok

\* Whether the stream! block leaves its loop after the item (break).
item_breaks(as_binary, item) ==
    ~item.ok \/ message_encode_fails(as_binary, item.value)

\* EndStreamResponse, yielded once the loop has been left.
end_stream_response(as_binary) ==
    IF as_binary THEN <<2, 0, 0, 0, 0>> ELSE <<2, 0, 0, 0, 2, 123, 125>>

\* The consumer of the response body asks for its next chunk: the stream!
\* block runs only while it is polled.
BodyPoll ==
    /\ \/ pc \in {"streaming", "stream_end"}
       \/ pc = "done" /\ kind = "stream" /\ handler_calls = 1 /\ ~env.ended
    /\ ~demand
    /\ demand' = TRUE
    /\ UNCHANGED << kind, n_extractors, parts, body, pc, binary, extracted,
                    proto_req, handler_calls, log, response, produced, requested,
                    transport, env, other, applied, result >>

may_request_unasked(asked, n_requested, n_answered) == n_requested = n_answered

\* Whether the stream! block calls res.next(): it is being polled and it is at
\* the head of its loop, the chunk of every earlier item yielded.
may_request(asked, n_requested, n_answered) == asked /\ n_requested = n_answered

\* The head of the loop: res.next() asks the handler's sequence for an item.
StreamRequest ==
    /\ pc = "streaming"
    /\ may_request(demand, requested, Len(produced))
    /\ requested' = requested + 1
    /\ UNCHANGED << kind, n_extractors, parts, body, pc, binary, extracted,
                    proto_req, handler_calls, log, response, produced, demand,
                    transport, env, other, applied, result >>

\* The handler's sequence answers the request with an item: its chunk is
\* yielded to the consumer of the body.
StreamItemWith(results) ==
    /\ pc = "streaming"
    /\ requested = Len(produced) + 1
    /\ Len(produced) < MaxItems
    /\ \E item \in results :
          /\ produced' = Append(produced, item)
          /\ response' = [response EXCEPT !.body = Append(@, item_chunk(binary, item))]
          /\ pc' = IF item_breaks(binary, item) THEN "stream_end" ELSE "streaming"
    /\ log' = Append(log, Step("item", Len(produced) + 1))
    /\ demand' = FALSE
    /\ UNCHANGED << kind, n_extractors, parts, body, binary, extracted, proto_req,
                    handler_calls, requested, transport, env, other, applied,
                    result >>

StreamItem == StreamItemWith(HandlerResults)

\* The loop has been left, by the end of the sequence (the request is answered
\* with None) or by a break (the block is polled again): EndStreamResponse is
\* yielded and the body is complete.
StreamEnd ==
    /\ \/ pc = "streaming" /\ requested = Len(produced) + 1
       \/ pc = "stream_end" /\ demand
    /\ response' = [response EXCEPT !.body = Append(@, end_stream_response(binary))]
    /\ log' = Append(log, Step("end", 0))
    /\ pc' = "done"
    /\ demand' = FALSE
    /\ UNCHANGED << kind, n_extractors, parts, body, binary, extracted, proto_req,
                    handler_calls, produced, requested, transport, env, other,
                    applied, result >>

body_end_awaits_producer(asked, n_requested, n_answered) ==
    asked /\ n_requested > n_answered

\* Whether the stream! block returns: it is polled after its last yield, and
\* nothing but the end of the block is left to run (no res.next()).
body_end_ready(asked, n_requested, n_answered) == asked

\* The block is polled after EndStreamResponse has been yielded: it returns,
\* and the consumer of the body is told that the body has ended.
BodyEnd ==
    /\ pc = "done"
    /\ kind = "stream"
    /\ handler_calls = 1
    /\ ~env.ended
    /\ body_end_ready(demand, requested, Len(produced))
    /\ env' = [env EXCEPT !.ended = TRUE]
    /\ demand' = FALSE
    /\ UNCHANGED << kind, n_extractors, parts, body, pc, binary, extracted,
                    proto_req, handler_calls, log, response, produced, requested,
                    transport, other, applied, result >>

Next ==
    \/ Receive
    \/ Negotiate
    \/ Extract
    \/ Decode
    \/ UnaryHandler
    \/ StreamHandler
    \/ BodyPoll
    \/ StreamRequest
    \/ StreamItem
    \/ StreamEnd
    \/ BodyEnd

Spec == Init /\ [][Next]_vars

\* The streaming adapter with a consumer that keeps polling the body while it
\* is open.  Once polled, the stream! block runs to its next yield or to its
\* end without awaiting anything but res.next(); the handler's sequence is
\* under no obligation to answer.
InitStream ==
    /\ InitCall({"stream"}, 0..MaxExtractors)
    /\ other = NoCall
    /\ applied = NotApplied
    /\ result = NotApplied

NextStream ==
    \/ Receive
    \/ Negotiate
    \/ Extract
    \/ Decode
    \/ StreamHandler
    \/ BodyPoll
    \/ StreamRequest
    \/ StreamItem
    \/ StreamEnd
    \/ BodyEnd

SpecStreamFair ==
    /\ InitStream
    /\ [][NextStream]_vars
    /\ WF_vars(BodyPoll)
    /\ WF_vars(StreamEnd)
    /\ WF_vars(BodyEnd)

(***************************************************************************)
(* Conversion of what a handler returns                                    *)
(*                                                                         *)
(* A returned value is [type, value]: a bare message, a Result whose error *)
(* is an RpcError or a (code, message) pair, a bare RpcError or a bare     *)
(* RpcErrorCode.                                                           *)
(***************************************************************************)
ReturnedMessage(m) == [type |-> "message", message |-> m]
ReturnedResult(r) == [type |-> "result", result |-> r]
ReturnedRpcError(e) == [type |-> "RpcError", error |-> e]
ReturnedRpcErrorCode(c) == [type |-> "RpcErrorCode", code |-> c]
ReturnedPair(c, m) == [type |-> "pair", code |-> c, message |-> m]

\* RpcIntoError::rpc_into_error, for RpcError and for (C, M).
rpc_into_error(e) ==
    IF e.type = "RpcError" THEN e.error
    ELSE [code |-> e.code, message |-> e.message, details |-> <<>>]

rpc_into_response_named_code(ret) ==
    CASE ret.type = "message" -> Ok(ret.message)
      [] ret.type = "result" ->
            IF ret.result.ok THEN Ok(ret.result.value)
            ELSE Err(rpc_into_error(ret.result.error))
      [] ret.type = "RpcError" -> Err(ret.error)
      [] ret.type = "RpcErrorCode" -> Err(RpcErrorNew(ret.code, ret.code))

\* RpcIntoResponse::rpc_into_response, for T, Result<T, E>, RpcError and
\* RpcErrorCode.
rpc_into_response(ret) ==
    CASE ret.type = "message" -> Ok(ret.message)
      [] ret.type = "result" ->
            IF ret.result.ok THEN Ok(ret.result.value)
            ELSE Err(rpc_into_error(ret.result.error))
      [] ret.type = "RpcError" -> Err(ret.error)
      [] ret.type = "RpcErrorCode" -> Err(RpcErrorNew(ret.code, ""))

\* Errors a handler builds: with and without a message and details.
ReturnedErrors ==
    { [code |-> c, message |-> m, details |-> d] :
        c \in {"NotFound", "Internal"}, m \in {"", "handler error"},
        d \in {<<>>, <<34>>} }

\* The values a handler returns.
HandlerReturns ==
    { ReturnedMessage(m) : m \in ResMessages }
    \cup { ReturnedResult(Ok(m)) : m \in ResMessages }
    \cup { ReturnedResult(Err(ReturnedRpcError(e))) : e \in ReturnedErrors }
    \cup { ReturnedResult(Err(ReturnedPair(c, m))) :
              c \in Codes, m \in {"", "handler error"} }
    \cup { ReturnedRpcError(e) : e \in ReturnedErrors }
    \cup { ReturnedRpcErrorCode(c) : c \in Codes }

(***************************************************************************)
(* Unary calls whose extractors use the &mut Parts they are given          *)
(***************************************************************************)
\* What an extractor may write into the method of the request.
Rewrites == {"keep", "GET", "POST"}

\* One context extractor runs and may write the method of the parts.
ExtractRewriting == ExtractWith(ExtractorOutcomes, Rewrites)

InitMutableParts ==
    /\ InitCall({"unary"}, 0..MaxExtractors)
    /\ other = NoCall
    /\ applied = NotApplied
    /\ result = NotApplied

NextMutableParts ==
    \/ Receive
    \/ Negotiate
    \/ ExtractRewriting
    \/ Decode
    \/ UnaryHandler

SpecMutableParts == InitMutableParts /\ [][NextMutableParts]_vars

(***************************************************************************)
(* Two calls in flight                                                     *)
(*                                                                         *)
(* call() returns a boxed future per request; the runtime polls the        *)
(* futures of the requests in flight in any order.  The variables of the   *)
(* call hold the future being polled, other holds the future that waits.   *)
(***************************************************************************)
\* The locals of the future being polled.
current_call ==
    [kind |-> kind, n_extractors |-> n_extractors, parts |-> parts, body |-> body,
     pc |-> pc, binary |-> binary, extracted |-> extracted, proto_req |-> proto_req,
     handler_calls |-> handler_calls, log |-> log, response |-> response,
     produced |-> produced, demand |-> demand, requested |-> requested,
     transport |-> transport, env |-> env]

\* The future of a request that has not arrived yet.
idle_call(k, n) ==
    [kind |-> k, n_extractors |-> n, parts |-> NoParts, body |-> <<>>,
     pc |-> "idle", binary |-> FALSE, extracted |-> 0, proto_req |-> NoValue,
     handler_calls |-> 0, log |-> <<>>, response |-> NoResponse,
     produced |-> <<>>, demand |-> FALSE, requested |-> 0,
     transport |-> NoTransport, env |-> NoEnv]

resume_sharing_binary(waiting, polled) == [waiting EXCEPT !.binary = polled.binary]
resume_sharing_extracted(waiting, polled) ==
    [waiting EXCEPT !.extracted = polled.extracted]

\* What a future finds when it is polled again: the locals of its own async
\* block, as it left them (async move: the block owns parts, body, binary and
\* everything it derives from them).
resume(waiting, polled) == waiting

\* The runtime leaves the future it was polling and polls the other one.
Switch ==
    /\ other.pc # "none"
    /\ LET c == resume(other, current_call)
       IN  /\ kind' = c.kind
           /\ n_extractors' = c.n_extractors
           /\ parts' = c.parts
           /\ body' = c.body
           /\ pc' = c.pc
           /\ binary' = c.binary
           /\ extracted' = c.extracted
           /\ proto_req' = c.proto_req
           /\ handler_calls' = c.handler_calls
           /\ log' = c.log
           /\ response' = c.response
           /\ produced' = c.produced
           /\ demand' = c.demand
           /\ requested' = c.requested
           /\ transport' = c.transport
           /\ env' = c.env
    /\ other' = current_call
    /\ UNCHANGED << applied, result >>

\* The requests, bodies and results of the calls in flight: a JSON and a
\* binary request for each of the two shapes, by POST and by GET, and a GET
\* request whose message does not decode.
ConcurrentArities == {0, 1}

ConcurrentRequests ==
    { Parts("POST", Header("absent", <<>>), Header("text", <<t>>), NoQuery) :
        t \in {"application/json", "application/proto", "application/connect+json",
               "application/connect+proto"} }
    \cup { Parts("GET", Header("absent", <<>>), Header("absent", <<>>), q) :
              q \in { Query(Some(<<123, 125>>), Some("json"), ""),
                      Query(Some(<<67, 65, 69, 61>>), Some("proto"), "1"),
                      Query(Some(<<33, 33, 33, 33>>), Some("json"), "1") } }

ConcurrentBodies ==
    { EncodeJson(1), EncodeBinary(1),
      <<0>> \o to_be_bytes(Len(EncodeJson(1))) \o EncodeJson(1),
      <<0>> \o to_be_bytes(Len(EncodeBinary(1))) \o EncodeBinary(1) }

ConcurrentOutcomes == { Ok(0), Err(RpcErrorNew("Unauthenticated", "rejection")) }

ConcurrentResults ==
    { Ok(1), Ok(Unserializable), Err(RpcErrorNew("NotFound", "handler error")) }

ReceiveConcurrent == ReceiveFrom(ConcurrentRequests)
ExtractConcurrent == ExtractWith(ConcurrentOutcomes, {"keep"})
DecodeConcurrent == DecodeFrom(ConcurrentBodies)
UnaryHandlerConcurrent == UnaryHandlerWith(ConcurrentResults)
StreamItemConcurrent == StreamItemWith(ConcurrentResults)

InitConcurrent ==
    /\ InitCall({"unary", "stream"}, ConcurrentArities)
    /\ other \in { idle_call(k, n) : k \in {"unary", "stream"}, n \in ConcurrentArities }
    /\ applied = NotApplied
    /\ result = NotApplied

NextConcurrent ==
    \/ ReceiveConcurrent
    \/ Negotiate
    \/ ExtractConcurrent
    \/ DecodeConcurrent
    \/ UnaryHandlerConcurrent
    \/ StreamHandler
    \/ BodyPoll
    \/ StreamRequest
    \/ StreamItemConcurrent
    \/ StreamEnd
    \/ BodyEnd
    \/ Switch

SpecConcurrent == InitConcurrent /\ [][NextConcurrent]_vars

(***************************************************************************)
(* Route generation (axum-connect-build)                                   *)
(*                                                                         *)
(* A text (a path, the name of a generated function) is a sequence of      *)
(* tokens.  A route is what one generated registration function adds to    *)
(* the router: a path, an HTTP verb and the adapter trait of its handler.  *)
(***************************************************************************)
Method(name, proto_name, client_streaming, server_streaming) ==
    [name |-> name, proto_name |-> proto_name,
     client_streaming |-> client_streaming, server_streaming |-> server_streaming]
Service(package, name, proto_name, methods) ==
    [package |-> package, name |-> name, proto_name |-> proto_name,
     methods |-> methods]
Route(fn, path, verb, adapter) ==
    [fn |-> fn, path |-> path, verb |-> verb, adapter |-> adapter]

generate_service_method_snake_path(method, path_root) ==
    LET path == <<"/">> \o path_root \o <<"/", method.name>>
    IN  IF method.server_streaming
        THEN << Route(<<method.name>>, path, "POST", "RpcHandlerStream") >>
        ELSE << Route(<<method.name>>, path, "POST", "RpcHandlerUnary"),
                Route(<<method.name, "_unary_get">>, path, "GET", "RpcHandlerUnary") >>

\* AxumConnectServiceGenerator::generate_service_method
generate_service_method(method, path_root) ==
    LET path == <<"/">> \o path_root \o <<"/", method.proto_name>>
    IN  IF method.server_streaming
        THEN << Route(<<method.name>>, path, "POST", "RpcHandlerStream") >>
        ELSE << Route(<<method.name>>, path, "POST", "RpcHandlerUnary"),
                Route(<<method.name, "_unary_get">>, path, "GET", "RpcHandlerUnary") >>

\* The filter_map of generate_service over the methods from index i on.
RECURSIVE generate_methods(_, _, _)
generate_methods(methods, i, path_root) ==
    IF i > Len(methods) THEN <<>>
    ELSE (IF methods[i].client_streaming THEN <<>>
          ELSE generate_service_method(methods[i], path_root))
         \o generate_methods(methods, i + 1, path_root)

\* AxumConnectServiceGenerator::generate_service
generate_service(service) ==
    generate_methods(service.methods, 1, <<service.package, ".", service.proto_name>>)

\* The methods handed to the generator: two names, each in the four
\* combinations of client and server streaming.
Methods ==
    { Method(n[1], n[2], c, v) :
        n \in { <<"say_hello", "SayHello">>, <<"say_bye", "SayBye">> },
        c \in BOOLEAN, v \in BOOLEAN }

\* Sequences of at most MaxMethods methods with distinct names.
MethodLists ==
    UNION { { ms \in [1..n -> Methods] :
                \A i \in 1..n, j \in 1..n : i # j => ms[i].name # ms[j].name } :
            n \in 0..MaxMethods }

Services ==
    { Service(pkg, "HelloWorldService", "HelloWorldService", ms) :
        pkg \in {"hello", "blink.v1"}, ms \in MethodLists }

(***************************************************************************)
(* The functions of the library applied on their own                       *)
(***************************************************************************)
Apply(op, arg, value) ==
    /\ applied = NotApplied
    /\ applied' = [op |-> op, arg |-> arg]
    /\ result' = [op |-> op, value |-> value]
    /\ UNCHANGED << call_vars, other >>

\* prost-build hands a service to the generator.
GenerateService ==
    \E service \in Services :
        Apply("generate_service", service, generate_service(service))

\* A handler returns and its value is converted.
RpcIntoResponse ==
    \E ret \in HandlerReturns :
        Apply("rpc_into_response", ret, rpc_into_response(ret))

\* A message is encoded as the codec encodes a response and the bytes are
\* handed to the request decoder as the body of a request.
RoundTrip ==
    \E m \in ReqMessages, as_binary \in BOOLEAN, for_streaming \in BOOLEAN :
        LET enc == ResponseEncoderNew(for_streaming, as_binary)
            bytes == IF for_streaming THEN encode_message_enveloped(enc, m)
                     ELSE encode_message_unary(enc, m)
        IN  Apply("round_trip",
                  [message |-> m, binary |-> as_binary, streaming |-> for_streaming],
                  decode_request_payload(bytes, TRUE, as_binary, for_streaming))

InitFunctions ==
    /\ InitCall({"unary"}, {0})
    /\ other = NoCall
    /\ applied = NotApplied
    /\ result = NotApplied

NextFunctions ==
    \/ GenerateService
    \/ RpcIntoResponse
    \/ RoundTrip

SpecFunctions == InitFunctions /\ [][NextFunctions]_vars

(***************************************************************************)
(* Properties                                                              *)
(***************************************************************************)
Last(s) == s[Len(s)]

\* The call ended in content negotiation.
NegotiationFailed == pc = "done" /\ log = << Step("negotiate", 0) >>

\* The errors content negotiation reports.
NegotiationErrors ==
    { RpcErrorNew("InvalidArgument", m) :
        m \in { "Missing query", "Wrong query", "Wrong or unknown query.encoding",
                "Unsupported protocol version", "Wrong or unknown Content-Type",
                "Missing Content-Type header" } }

\* An end-of-stream frame that carries the error: flag 2, the length of the
\* payload, and the JSON object {"error": <error>}.
ErrorEndFrame(e) ==
    <<2>> \o to_be_bytes(Len(EndOfStreamJson(e))) \o EndOfStreamJson(e)

StreamingContentTypes == { "application/connect+json", "application/connect+proto" }

\* C1: every content-negotiation failure is encoded in the declared shape of
\* the method: a unary method answers with the mapped status (400), Content-Type
\* application/json and a plain JSON error body; a server-streaming method
\* answers with status 200, a streaming Content-Type and one end-of-stream
\* envelope that carries the error.
C1_NegotiationFailureInDeclaredShape ==
    NegotiationFailed =>
        \E e \in NegotiationErrors :
            IF kind = "unary"
            THEN /\ response.status = 400
                 /\ response.content_type = "application/json"
                 /\ response.body = << ErrorJson(e) >>
            ELSE /\ response.status = 200
                 /\ response.content_type \in StreamingContentTypes
                 /\ response.body = << ErrorEndFrame(e) >>

\* C2: every response of a server-streaming method has status 200, whether the
\* call ended in negotiation, in a context extractor, in reading or decoding the
\* request, in an error item, in an item that cannot be encoded, or in the end
\* of the sequence.
C2_StreamingStatusAlways200 ==
    (kind = "stream" /\ response # NoResponse) => response.status = 200

\* A server-streaming call was rejected by negotiation and answered.
C2_Witness ==
    kind = "stream" /\ NegotiationFailed /\ response.status = 200

\* C3: when the handler's sequence produces an error item, the frames of the
\* earlier items are followed by an end-of-stream frame with flag 2 and payload
\* {"error": <that error>}, and that frame is the last frame of the body, in the
\* JSON and in the binary encoding.
C3_ErrorFrameIsLast ==
    (kind = "stream" /\ pc = "done" /\ produced # <<>> /\ ~Last(produced).ok) =>
        /\ Len(response.body) = Len(produced)
        /\ Last(response.body) = ErrorEndFrame(Last(produced).error)

\* C4: when the handler's sequence completes with no error item, the last frame
\* of the body is the 7 bytes [2, 0, 0, 0, 2, '{', '}'], in the JSON and in the
\* binary encoding.
C4_SuccessEndFrame ==
    (kind = "stream" /\ pc = "done" /\ handler_calls = 1
        /\ \A i \in DOMAIN produced : produced[i].ok) =>
        Last(response.body) = <<2, 0, 0, 0, 2, 123, 125>>

\* C5: a complete server-streaming body holds exactly one frame with flag 2,
\* its last one, and every frame before it is a message frame with flag 0.
C5_OneEndFrame ==
    (kind = "stream" /\ pc = "done" /\ response # NoResponse) =>
        /\ response.body # <<>>
        /\ Last(response.body)[1] = 2
        /\ \A i \in 1..(Len(response.body) - 1) : response.body[i][1] = 0

\* Every error the model can report.
AllErrors ==
    { RpcErrorNew(c, m) : c \in Codes,
        m \in { "", "Missing query", "Wrong query", "Wrong or unknown query.encoding",
                "Unsupported protocol version", "Wrong or unknown Content-Type",
                "Missing Content-Type header", "Wrong query.message",
                "Failed to decode binary protobuf", "Failed to decode json",
                "Failed to read request body", "Failed to decode JSON protobuf",
                "Failed to serialize response", "encode error", "rejection",
                "handler error" } }

\* The unary call ended in an error: an early return, an error of the handler,
\* or a response message that JSON cannot serialize.
UnaryCallFailed ==
    /\ kind = "unary"
    /\ pc = "done"
    /\ \/ handler_calls = 0
       \/ ~produced[1].ok
       \/ (~binary /\ ~JsonEncodable(produced[1].value))

\* C6: a unary call that ends in an error, whatever step produced it, returns a
\* status other than 200, equal to the mapped status of the error's code, with a
\* JSON body {code, message, details}.
C6_UnaryErrorStatus ==
    UnaryCallFailed =>
        \E e \in AllErrors :
            /\ response.body = << ErrorJson(e) >>
            /\ response.status = StatusCodeFrom(e.code)
            /\ response.status # 200

\* C7: every request handed to an adapter yields a response: no step panics,
\* whatever the method, the headers, the query and the body, an empty body
\* included.
C7_NoPanic == pc # "panicked"

\* The steps of a unary call with n extractors, in the order of the claim.
RECURSIVE ExtractSteps(_, _)
ExtractSteps(from, to) ==
    IF from > to THEN <<>> ELSE << Step("extract", from) >> \o ExtractSteps(from + 1, to)
UnarySteps(n) ==
    << Step("negotiate", 0) >> \o ExtractSteps(1, n)
        \o << Step("decode", 0), Step("handler", 0), Step("encode", 0) >>

IsPrefix(s, t) == Len(s) <= Len(t) /\ s = SubSeq(t, 1, Len(s))

\* C8: a unary call runs negotiation, the extractors in declared order,
\* request decoding, the handler and response encoding, in this order; the first
\* step that fails produces the response and nothing runs after it: no later
\* extractor, no read of the body, no handler; when every earlier step succeeds
\* the handler is invoked exactly once.
C8_UnaryStepOrder ==
    kind = "unary" =>
        /\ IsPrefix(log, UnarySteps(n_extractors))
        /\ response # NoResponse => pc = "done"
        /\ pc = "done" => response # NoResponse
        /\ handler_calls = IF log = UnarySteps(n_extractors) THEN 1 ELSE 0
        /\ (pc = "done" /\ proto_req.some) => handler_calls = 1
        /\ (pc = "done" /\ ~proto_req.some) => handler_calls = 0

\* The second of two extractors failed: decoding and the handler did not run.
C8_Witness ==
    /\ kind = "unary"
    /\ pc = "done"
    /\ n_extractors >= 2
    /\ log = << Step("negotiate", 0), Step("extract", 1), Step("extract", 2) >>
    /\ handler_calls = 0

\* The table of the error model.
StatusTable ==
    [c \in Codes |->
        CASE c \in {"Canceled", "DeadlineExceeded"} -> 408
          [] c \in {"Unknown", "Internal", "DataLoss"} -> 500
          [] c \in {"InvalidArgument", "OutOfRange"} -> 400
          [] c \in {"NotFound", "Unimplemented"} -> 404
          [] c \in {"AlreadyExists", "Aborted"} -> 409
          [] c = "PermissionDenied" -> 403
          [] c = "ResourceExhausted" -> 429
          [] c = "FailedPrecondition" -> 412
          [] c = "Unavailable" -> 503
          [] c = "Unauthenticated" -> 401]

\* C9: the HTTP status of an error code is the one of the table, for each of
\* the 16 codes, and never 200: a unary call whose handler returns an error
\* answers with the table's status of its code.
C9_StatusTable ==
    /\ Cardinality(Codes) = 16
    /\ (kind = "unary" /\ pc = "done" /\ handler_calls = 1 /\ ~produced[1].ok) =>
           /\ response.status = StatusTable[produced[1].error.code]
           /\ response.status # 200

\* A unary handler returned Unimplemented and the call answered 404.
C9_Witness ==
    /\ kind = "unary"
    /\ pc = "done"
    /\ handler_calls = 1
    /\ ~produced[1].ok
    /\ produced[1].error.code = "Unimplemented"
    /\ response.status = 404

\* The tokens that are a media type in some letter case.
CaseVariants(media) ==
    CASE media = "application/json" -> {"application/json", "APPLICATION/JSON"}
      [] media = "application/proto" -> {"application/proto", "Application/Proto"}
      [] media = "application/connect+json" ->
            {"application/connect+json", "Application/Connect+JSON"}
      [] media = "application/connect+proto" ->
            {"application/connect+proto", "APPLICATION/CONNECT+PROTO"}

\* The tokens of a header value that precede its first ';'.
BeforeSemicolon(s) ==
    SubSeq(s, 1, Cardinality({ i \in DOMAIN s : \A j \in 1..i : s[j] # ";" }))

\* The tokens of a value that are not white space.
Words(s) == SelectSeq(s, LAMBDA t : t # " ")

\* What the claim resolves a Content-Type header to for a method of the given
\* shape: "json", "proto" or "rejected".  With `trimmed`, white space around the
\* media type is ignored too.
ClaimedResolution(k, h, trimmed) ==
    LET text == IF h.state = "text" THEN h.value ELSE <<>>
        head == BeforeSemicolon(text)
        toks == IF trimmed THEN Words(head) ELSE head
        json == IF k = "unary" THEN "application/json" ELSE "application/connect+json"
        proto == IF k = "unary" THEN "application/proto" ELSE "application/connect+proto"
    IN  IF Len(toks) = 1 /\ toks[1] \in CaseVariants(json) THEN "json"
        ELSE IF Len(toks) = 1 /\ toks[1] \in CaseVariants(proto) THEN "proto"
        ELSE "rejected"

\* The request went through the headers path and its version was accepted.
HeadersPathNegotiated ==
    /\ Len(log) >= 1
    /\ kind = "stream" \/ parts.method # "GET"
    /\ parts.version \in { Header("absent", <<>>), Header("text", <<"1">>) }

ContentTypeResolves(trimmed) ==
    HeadersPathNegotiated =>
        LET r == ClaimedResolution(kind, parts.content_type, trimmed)
        IN  IF r = "rejected"
            THEN /\ NegotiationFailed
                 /\ \E e \in NegotiationErrors :
                       response.body \in { << ErrorEndFrame(e) >>, << ErrorJson(e) >> }
            ELSE /\ ~NegotiationFailed
                 /\ binary = (r = "proto")

\* C10 as stated: on the headers path the Content-Type, compared without regard
\* to letter case and with everything from the first ';' on ignored, selects
\* JSON or binary for the media type of the method's shape, and every other
\* value, a media type of the other shape and a missing header are rejected with
\* InvalidArgument.
C10_ContentTypeResolution == ContentTypeResolves(FALSE)

\* C10 as amended: as above, with white space around the media type ignored as
\* well: "application/json ; charset=utf-8" selects JSON for a unary method.
C10_ContentTypeResolutionTrimmed == ContentTypeResolves(TRUE)

\* A unary request with Content-Type "APPLICATION/JSON ; Charset=UTF-8" was
\* negotiated as JSON.
C10_Witness ==
    /\ kind = "unary"
    /\ parts.method = "POST"
    /\ parts.content_type =
          Header("text", << "APPLICATION/JSON", " ", ";", " ", "Charset=UTF-8" >>)
    /\ pc = "extract"
    /\ ~binary

\* The request went through the headers path: a POST to a unary method or any
\* request to a server-streaming method.
HeadersPath == Len(log) >= 1 /\ (kind = "stream" \/ parts.method # "GET")

\* The bodies that report an unsupported protocol version.
VersionRejections ==
    LET e == RpcErrorNew("InvalidArgument", "Unsupported protocol version")
    IN  { << ErrorJson(e) >>, << ErrorEndFrame(e) >> }

\* C11: on the headers path a connect-protocol-version header whose value is
\* not exactly "1" (an empty value and a value that is no text included) is
\* rejected with InvalidArgument before any extractor or the handler runs; a
\* request without the header, or with the value "1", is never rejected for its
\* version.
C11_VersionCheck ==
    HeadersPath =>
        IF parts.version \notin { Header("absent", <<>>), Header("text", <<"1">>) }
        THEN /\ NegotiationFailed
             /\ response.body \in VersionRejections
             /\ extracted = 0
             /\ handler_calls = 0
        ELSE response.body \notin VersionRejections

\* A server-streaming request whose version header is no text was rejected
\* for its version.
C11_Witness ==
    /\ kind = "stream"
    /\ parts.version = Header("non-text", <<>>)
    /\ NegotiationFailed
    /\ response.body \in VersionRejections

\* A GET request to a unary method has been negotiated.
UnaryGet == kind = "unary" /\ Len(log) >= 1 /\ parts.method = "GET"

\* The other parameters of the query are well formed: message is given and
\* base64, when given, is a number.
RestOfQueryParses(q) == q.message.some /\ q.base64 \in {"", "0", "1", "2"}

\* C12: for a GET request to a unary method, encoding=json selects JSON and
\* encoding=proto selects binary; a missing encoding parameter is answered with
\* status 400 and a JSON body whose code is InvalidArgument; any other value is
\* rejected with InvalidArgument; in every rejected case the handler is not
\* invoked.
C12_QueryEncoding ==
    (UnaryGet /\ parts.query.present) =>
        LET q == parts.query
        IN  /\ NegotiationFailed => handler_calls = 0
            /\ IF ~q.encoding.some
               THEN /\ NegotiationFailed
                    /\ response.status = 400
                    /\ response.content_type = "application/json"
                    /\ \E e \in NegotiationErrors : response.body = << ErrorJson(e) >>
               ELSE IF q.encoding.value \in {"json", "proto"}
               THEN RestOfQueryParses(q) =>
                        /\ ~NegotiationFailed
                        /\ binary = (q.encoding.value = "proto")
               ELSE /\ NegotiationFailed
                    /\ \E e \in NegotiationErrors :
                          response.body \in { << ErrorJson(e) >>, << ErrorEndFrame(e) >> }

\* A GET request with message={} and no encoding parameter was answered 400.
C12_Witness ==
    /\ UnaryGet
    /\ parts.query = Query(Some(<<123, 125>>), NoValue, "")
    /\ NegotiationFailed
    /\ response.status = 400
    /\ handler_calls = 0

\* A GET request with encoding=proto was negotiated as binary.
C12_WitnessProto ==
    /\ UnaryGet
    /\ parts.query.present
    /\ parts.query.encoding = Some("proto")
    /\ pc = "extract"
    /\ binary

\* The body of the response carries an error of the given code, as a plain
\* JSON error or inside an end-of-stream frame.
ErrorMessages == { e.message : e \in AllErrors }
CarriesCode(chunks, code) ==
    \E m \in ErrorMessages :
        LET e == RpcErrorNew(code, m)
        IN  chunks \in { << ErrorJson(e) >>, << ErrorEndFrame(e) >> }

\* URL-safe base64 with padding, by its test vectors: "" is the empty text,
\* "e30=" is "{}", "CAE=" is the bytes 08 01; the other texts of message
\* ("{}", 08 01, "e30", "!!!!") are not base64.
ClaimedBase64(text) ==
    CASE text = <<>> -> Ok(<<>>)
      [] text = <<101, 51, 48, 61>> -> Ok(<<123, 125>>)
      [] text = <<67, 65, 69, 61>> -> Ok(<<8, 1>>)
      [] OTHER -> Err("not base64")

\* The decode step of the call has run.
DecodeRan == \E i \in DOMAIN log : log[i] = Step("decode", 0)

\* C13: for a GET request to a unary method the bytes of the request message
\* are the URL-safe base64 decoding of `message` when base64=1 and the literal
\* bytes of `message` when base64 is absent or another number; a failure of
\* base64 yields InvalidArgument; the bytes are decoded with the encoding that
\* `encoding` selected; a request with no query string yields InvalidArgument.
C13_QueryMessage ==
    UnaryGet =>
        /\ ~parts.query.present =>
              (NegotiationFailed /\ CarriesCode(response.body, "InvalidArgument"))
        /\ DecodeRan =>
              LET q == parts.query
                  bytes == IF q.base64 = "1" THEN ClaimedBase64(q.message.value)
                           ELSE Ok(q.message.value)
                  m == IF ~bytes.ok THEN bytes
                       ELSE IF q.encoding.value = "proto" THEN DecodeBinary(bytes.value)
                       ELSE DecodeJson(bytes.value)
              IN  IF m.ok
                  THEN proto_req = Some(m.value)
                  ELSE /\ pc = "done"
                       /\ Last(log) = Step("decode", 0)
                       /\ handler_calls = 0
                       /\ CarriesCode(response.body, "InvalidArgument")

\* A GET request with message=CAE=, base64=1 and encoding=proto was decoded to
\* the message of field value 1.
C13_Witness ==
    /\ UnaryGet
    /\ parts.query = Query(Some(<<67, 65, 69, 61>>), Some("proto"), "1")
    /\ proto_req = Some(1)
    /\ pc = "handler"

\* A GET request with message=e30=, encoding=json and base64=0 was rejected:
\* the literal text "e30=" is no JSON.
C13_WitnessLiteral ==
    /\ UnaryGet
    /\ parts.query = Query(Some(<<101, 51, 48, 61>>), Some("json"), "0")
    /\ pc = "done"
    /\ DecodeRan

\* The unary call ran every step and its handler returned a message that the
\* negotiated encoding can serialize.
UnaryCallSucceeded ==
    /\ kind = "unary"
    /\ pc = "done"
    /\ handler_calls = 1
    /\ produced[1].ok
    /\ binary \/ JsonEncodable(produced[1].value)

\* C14: a unary call, by GET or by POST, whose negotiation, extractors and
\* decoding succeed and whose handler returns a message (one the negotiated
\* encoding can serialize) answers with status 200, with a body that is the
\* plain encoding of that message, without an envelope, in the negotiated
\* encoding, and with Content-Type application/json for JSON and
\* application/proto for binary.
C14_UnarySuccess ==
    UnaryCallSucceeded =>
        LET m == produced[1].value
        IN  /\ response.status = 200
            /\ response.body = << IF binary THEN EncodeBinary(m) ELSE EncodeJson(m) >>
            /\ response.content_type =
                  IF binary THEN "application/proto" ELSE "application/json"

\* A GET request negotiated as binary was answered with the message of field
\* value 1 in binary.
C14_Witness ==
    /\ UnaryCallSucceeded
    /\ parts.method = "GET"
    /\ binary
    /\ produced[1].value = 1
    /\ response.body = << <<8, 1>> >>
    /\ response.content_type = "application/proto"

\* A POST request negotiated as JSON was answered with the default message.
C14_WitnessJson ==
    /\ UnaryCallSucceeded
    /\ parts.method = "POST"
    /\ ~binary
    /\ response.body = << <<123, 125>> >>
    /\ response.content_type = "application/json"

\* The big-endian u32 held by bytes 1 to 4 of a frame (byte 0 is the flag).
LengthField(frame) ==
    frame[2] * 16777216 + frame[3] * 65536 + frame[4] * 256 + frame[5]

ItemChunks == IF pc = "done" THEN Len(response.body) - 1 ELSE Len(response.body)

\* C16: the handler's sequence and the response body advance in lockstep: an
\* item is requested only while the consumer of the body is asking for a chunk
\* and only once the chunk of every earlier item was handed to the body, one
\* request at a time, so that never more than one item is requested and not yet
\* emitted.
C16_Lockstep ==
    /\ [](kind = "stream" => requested <= ItemChunks + 1)
    /\ [][requested' # requested =>
              /\ requested' = requested + 1
              /\ demand
              /\ Len(response.body) = requested]_vars

\* The second item is requested: the frame of the first is in the body and
\* the consumer asks for the next chunk.
C16_Witness ==
    /\ kind = "stream"
    /\ pc = "streaming"
    /\ demand
    /\ requested = 2
    /\ Len(response.body) = 1
    /\ Len(produced) = 1

\* The number of items the sequence produced before its first error: the
\* leading items that are messages the negotiated encoding can serialize.
SuccessfulItems ==
    Cardinality({ i \in DOMAIN produced :
                    \A j \in 1..i : /\ produced[j].ok
                                     /\ (binary \/ JsonEncodable(produced[j].value)) })

\* What follows the 5-byte header of a frame.
FramePayload(frame) == SubSeq(frame, 6, Len(frame))

\* C17: the message frames of a server-streaming response are the encodings
\* of the successful items the handler's sequence produced before its first
\* error, one frame per item, in the order of production, none dropped,
\* duplicated or reordered: frame i carries item i; nothing is emitted for an
\* item after the first error; what was emitted is never altered or retracted.
\* (The flag byte of the frames is the subject of C5.)
C17_FramesAreItems ==
    /\ []((kind = "stream" /\ handler_calls = 1) =>
            /\ Len(response.body) >= SuccessfulItems
            /\ \A i \in 1..SuccessfulItems :
                  /\ Len(response.body[i]) >= 5
                  /\ FramePayload(response.body[i]) =
                        IF binary THEN EncodeBinary(produced[i].value)
                        ELSE EncodeJson(produced[i].value)
                  /\ LengthField(response.body[i]) = Len(FramePayload(response.body[i]))
            /\ Len(produced) <= SuccessfulItems + 1
            /\ Len(response.body) <= SuccessfulItems + 2
            /\ pc = "done" => Len(response.body) > SuccessfulItems)
    /\ [][kind = "stream" => IsPrefix(response.body, response.body')]_vars

\* Two items were emitted as two frames, in order, and the body is complete.
C17_Witness ==
    /\ kind = "stream"
    /\ pc = "done"
    /\ binary
    /\ produced = << Ok(1), Ok(0) >>
    /\ Len(response.body) = 3
    /\ FramePayload(response.body[1]) = <<8, 1>>
    /\ FramePayload(response.body[2]) = <<>>

\* An item was emitted and the next item is an error: the frame of the first
\* stays as it was.
C17_WitnessError ==
    /\ kind = "stream"
    /\ ~binary
    /\ Len(produced) = 2
    /\ produced[1] = Ok(1)
    /\ ~produced[2].ok
    /\ FramePayload(response.body[1]) = <<123, 118, 49, 125>>

\* The call ended in the decode step: the body could not be read or the
\* payload could not be decoded.
DecodeFailed == pc = "done" /\ log # <<>> /\ Last(log) = Step("decode", 0)

C18_WitnessQuery ==
    /\ UnaryGet
    /\ DecodeFailed
    /\ response.body =
          << ErrorJson(RpcErrorNew("InvalidArgument", "Wrong query.message")) >>

\* C19: the response to a unary call that ends in an error is JSON, whatever
\* encoding was negotiated: its Content-Type is application/json and its body
\* is the plain JSON serialization of the error.
C19_UnaryErrorIsJson ==
    UnaryCallFailed =>
        /\ response.content_type = "application/json"
        /\ \E e \in AllErrors : response.body = << ErrorJson(e) >>

\* A request to a server-streaming method passed negotiation and was answered.
StreamAnswered ==
    /\ kind = "stream"
    /\ Len(log) >= 1
    /\ ~NegotiationFailed
    /\ response # NoResponse

\* C20: a server-streaming response whose negotiation succeeded has
\* Content-Type application/connect+proto when the request selected binary and
\* application/connect+json when it selected JSON; its message frames carry
\* payloads in that same encoding; the Content-Type is the same whether the call
\* ends in an extractor, in decoding, in an error item or in the end of the
\* sequence.
C20_StreamContentType ==
    StreamAnswered =>
        LET proto == ClaimedResolution("stream", parts.content_type, TRUE) = "proto"
        IN  /\ response.content_type =
                  IF proto THEN "application/connect+proto"
                  ELSE "application/connect+json"
            /\ handler_calls = 1 =>
                  \A i \in 1..SuccessfulItems :
                      FramePayload(response.body[i]) =
                          IF response.content_type = "application/connect+proto"
                          THEN EncodeBinary(produced[i].value)
                          ELSE EncodeJson(produced[i].value)

\* A binary stream emitted a message and ended in an error item: its
\* Content-Type is application/connect+proto.
C20_Witness ==
    /\ StreamAnswered
    /\ pc = "done"
    /\ Len(produced) = 2
    /\ produced[1] = Ok(1)
    /\ ~produced[2].ok
    /\ response.content_type = "application/connect+proto"
    /\ FramePayload(response.body[1]) = <<8, 1>>

\* A JSON stream was rejected by an extractor: its Content-Type is
\* application/connect+json.
C20_WitnessExtractor ==
    /\ StreamAnswered
    /\ Last(log).step = "extract"
    /\ response.content_type = "application/connect+json"

\* The routes the generator produced for a path and a verb.
RoutesOf(routes, path, verb) ==
    { k \in DOMAIN routes : routes[k].path = path /\ routes[k].verb = verb }

\* C21: the routes generated for a service give every method the path
\* /<package>.<ServiceName>/<MethodName>: a unary method gets one POST route and
\* one GET route, both for the unary adapter; a server-streaming method gets one
\* POST route for the streaming adapter and no GET route; a client-streaming or
\* bidirectional method gets no route; no other route is generated.
C21_RouteRegistration ==
    applied.op = "generate_service" =>
        LET service == applied.arg
            routes == result.value
            PathOf(m) == << "/", service.package, ".", service.proto_name, "/",
                            m.proto_name >>
            Posts(m) == RoutesOf(routes, PathOf(m), "POST")
            Gets(m) == RoutesOf(routes, PathOf(m), "GET")
        IN  /\ \A i \in DOMAIN service.methods :
                  LET m == service.methods[i]
                  IN  IF m.client_streaming
                      THEN Posts(m) = {} /\ Gets(m) = {}
                      ELSE IF m.server_streaming
                      THEN /\ Cardinality(Posts(m)) = 1
                           /\ \A k \in Posts(m) : routes[k].adapter = "RpcHandlerStream"
                           /\ Gets(m) = {}
                      ELSE /\ Cardinality(Posts(m)) = 1
                           /\ Cardinality(Gets(m)) = 1
                           /\ \A k \in Posts(m) \cup Gets(m) :
                                 routes[k].adapter = "RpcHandlerUnary"
            /\ \A k \in DOMAIN routes :
                  \E i \in DOMAIN service.methods :
                      routes[k].path = PathOf(service.methods[i])

\* A service with a unary and a bidirectional method was generated: two routes,
\* both for /hello.HelloWorldService/SayHello.
C21_Witness ==
    /\ applied.op = "generate_service"
    /\ applied.arg.package = "hello"
    /\ applied.arg.methods =
          << Method("say_hello", "SayHello", FALSE, FALSE),
             Method("say_bye", "SayBye", TRUE, TRUE) >>
    /\ Len(result.value) = 2
    /\ \A k \in 1..2 :
          result.value[k].path =
              << "/", "hello", ".", "HelloWorldService", "/", "SayHello" >>

\* C22: the conversion of what a handler returns has these outcomes: a bare
\* message m gives Ok(m); Ok(m) gives Ok(m); Err(e) gives the error that
\* rpc_into_error makes of e (e itself for an RpcError, the error of that code
\* and message with no details for a pair); a bare RpcError gives that error
\* unchanged; a bare RpcErrorCode gives the error of that code with an empty
\* message and no details.  No error becomes a success, no success an error.
C22_Conversion ==
    applied.op = "rpc_into_response" =>
        LET ret == applied.arg
            out == result.value
        IN  CASE ret.type = "message" -> out.ok /\ out.value = ret.message
              [] ret.type = "result" /\ ret.result.ok ->
                    out.ok /\ out.value = ret.result.value
              [] ret.type = "result" /\ ~ret.result.ok ->
                    /\ ~out.ok
                    /\ IF ret.result.error.type = "RpcError"
                       THEN out.error = ret.result.error.error
                       ELSE /\ out.error.code = ret.result.error.code
                            /\ out.error.message = ret.result.error.message
                            /\ out.error.details = <<>>
              [] ret.type = "RpcError" -> ~out.ok /\ out.error = ret.error
              [] ret.type = "RpcErrorCode" ->
                    /\ ~out.ok
                    /\ out.error.code = ret.code
                    /\ out.error.message = ""
                    /\ out.error.details = <<>>

\* A handler returned the bare code NotFound: the error NotFound with an empty
\* message.
C22_Witness ==
    /\ applied.op = "rpc_into_response"
    /\ applied.arg.type = "RpcErrorCode"
    /\ applied.arg.code = "NotFound"
    /\ ~result.value.ok
    /\ result.value.error.code = "NotFound"
    /\ result.value.error.message = ""

\* A handler returned Err of an RpcError with details: the error is unchanged.
C22_WitnessDetails ==
    /\ applied.op = "rpc_into_response"
    /\ applied.arg.type = "result"
    /\ ~result.value.ok
    /\ result.value.error.details = <<34>>

\* C25: for every message m and both encodings, decoding the codec's encoding
\* of m returns m: the unary encoding as the body of a unary request, the
\* enveloped encoding (a 5-byte header and the payload) as the body of a
\* streaming request.
C25_RoundTrip ==
    applied.op = "round_trip" =>
        /\ result.value.outcome = "ok"
        /\ result.value.message = applied.arg.message

\* The message of field value 1 went through the enveloped JSON encoding and
\* back.
C25_Witness ==
    /\ applied.op = "round_trip"
    /\ applied.arg = [message |-> 1, binary |-> FALSE, streaming |-> TRUE]
    /\ result.value.outcome = "ok"
    /\ result.value.message = 1

\* Whether an item ends the sequence: an error, or a message the encoding of
\* the call cannot serialize.
Terminating(as_binary, item) ==
    ~item.ok \/ (~as_binary /\ ~JsonEncodable(item.value))

\* C26: once the handler's sequence of a server-streaming call has produced
\* an error item, or an item whose encoding failed, and the frame for it has
\* been emitted, no step asks the sequence for another item.
C26_NoRequestAfterTermination ==
    [][ (/\ kind = "stream"
         /\ produced # <<>>
         /\ Terminating(binary, Last(produced)))
        => requested' = requested ]_vars

\* A stream whose first item was an error is complete: one item was asked
\* for, and the bound on items would have allowed another.
C26_Witness ==
    /\ kind = "stream"
    /\ pc = "done"
    /\ Len(produced) = 1
    /\ Len(produced) < MaxItems
    /\ ~produced[1].ok
    /\ requested = 1

\* The same for a first item that JSON could not serialize.
C26_WitnessEncode ==
    /\ kind = "stream"
    /\ pc = "done"
    /\ ~binary
    /\ Len(produced) = 1
    /\ produced[1].ok
    /\ ~JsonEncodable(produced[1].value)
    /\ requested = 1

\* C27 as stated: the request decoder runs before the context extractors, so
\* every extractor that ran was preceded by the decoder, and a call whose
\* decoding failed ran no extractor.
C27_DecoderBeforeExtractors ==
    /\ \A i \in 1..Len(log) :
          log[i].step = "extract" =>
              \E j \in 1..(i - 1) : log[j].step = "decode"
    /\ (pc = "done" /\ log # <<>> /\ Last(log).step = "decode")
          => env.extract = <<>>

\* C27, amended: in a unary and in a streaming call the context extractors run
\* before the request decoder.  The decoder runs only after negotiation and
\* after every extractor has returned Ok, the handler only after the decoder;
\* while an extractor runs nothing of the body has been read, and a call in
\* which an extractor fails is answered without the decoder having run,
\* whether or not its payload could be decoded.
C27_ExtractorsBeforeDecoder ==
    /\ \A i \in 1..Len(log) :
          /\ log[i].step = "decode" =>
                /\ i = n_extractors + 2
                /\ log[1].step = "negotiate"
                /\ \A k \in 1..n_extractors :
                      log[k + 1] = Step("extract", k) /\ env.extract[k].ok
          /\ log[i].step = "extract" =>
                \A j \in 1..i : log[j].step # "decode"
          /\ log[i].step = "handler" =>
                i > 1 /\ log[i - 1].step = "decode"
    /\ (\E k \in 1..Len(env.extract) : ~env.extract[k].ok) =>
          /\ env.read = ""
          /\ transport.decode = ""
          /\ ~proto_req.some
          /\ pc = "done"

\* A unary GET call whose query carries a message that does not decode was
\* answered by the rejection of its first extractor: the decoder did not run.
C27_Witness ==
    /\ kind = "unary"
    /\ parts.method = "GET"
    /\ pc = "done"
    /\ log = << Step("negotiate", 0), Step("extract", 1) >>
    /\ ~env.extract[1].ok
    /\ decode_request_payload_from_query(parts, binary).outcome = "err"
    /\ response = rejection_response(kind, binary, env.extract[1].error)

\* A streaming call decoded its request after both of its extractors.
C27_WitnessStream ==
    /\ kind = "stream"
    /\ n_extractors = 2
    /\ Len(log) >= 4
    /\ log[4].step = "decode"

\* What C28 says a streaming body decodes to: the bytes behind the first five,
\* as a plain message in the negotiated encoding.
DecodedBehindHeader(bytes, as_binary) ==
    LET rest == SubSeq(bytes, 6, Len(bytes))
    IN  IF as_binary THEN DecodeBinary(rest) ELSE DecodeJson(rest)

StreamBodyDecoded ==
    kind = "stream" /\ transport.decode = "body" /\ env.read = "ok"

\* C28: for a streaming request the decoded message is obtained from the
\* body with its first 5 bytes removed, for every body: the bytes of the header
\* are compared with nothing, and what follows them is decoded as a plain
\* message in the negotiated encoding.
C28_HeaderRemovedForEveryBody ==
    StreamBodyDecoded =>
        LET r == DecodedBehindHeader(body, binary)
        IN  /\ pc # "panicked"
            /\ r.ok => proto_req = Some(r.value)
            /\ ~r.ok => ~proto_req.some /\ pc = "done"

\* C28 for the bodies that have a header to remove: the same, for bodies of
\* 5 bytes and more.
C28_HeaderRemoved ==
    (StreamBodyDecoded /\ Len(body) >= 5) =>
        LET r == DecodedBehindHeader(body, binary)
        IN  /\ pc # "panicked"
            /\ r.ok => proto_req = Some(r.value)
            /\ ~r.ok => ~proto_req.some /\ pc = "done"

\* A body whose header is that of an end-of-stream frame with a length of
\* 0x09090909 decoded to the message behind it.
C28_WitnessHeaderIgnored ==
    /\ StreamBodyDecoded
    /\ body = <<2, 9, 9, 9, 9, 123, 125>>
    /\ proto_req = Some(0)

\* The GET request of a query that carries no connect-protocol-version and no
\* Content-Type header.
BareGet(q) == Parts("GET", Header("absent", <<>>), Header("absent", <<>>), q)

\* C29: for a GET request to a unary method the outcome of content negotiation
\* depends on the query string only: it is the outcome of the request of the
\* same query without a connect-protocol-version and without a Content-Type
\* header, so two GET requests of one query get the same outcome; and no GET
\* request is rejected for its protocol version.
C29_GetNegotiationFromQueryOnly ==
    UnaryGet =>
        LET r == decode_check_query(BareGet(parts.query))
        IN  /\ r.ok => ~NegotiationFailed /\ binary = r.binary
            /\ ~r.ok => NegotiationFailed /\ response = r.response
            /\ response.body \notin VersionRejections

\* A GET request with connect-protocol-version: 2 and Content-Type: text/plain
\* was negotiated as binary from its query.
C29_Witness ==
    /\ UnaryGet
    /\ parts.version = Header("text", <<"2">>)
    /\ parts.content_type = Header("text", <<"text/plain">>)
    /\ ~NegotiationFailed
    /\ binary
    /\ pc = "done"

\* C30: in a unary call the transport the message is decoded from is the one
\* negotiation used for the same request (the query string for both, or the
\* headers for negotiation and the body for decoding), whatever the extractors
\* that ran in between did with the parts of the request.
C30_DecodeTransportIsNegotiated ==
    (kind = "unary" /\ transport.decode # "") =>
        (transport.negotiate = "query" <=> transport.decode = "query")

RECURSIVE ItemChunksOf(_, _, _)
ItemChunksOf(as_binary, items, i) ==
    IF i > Len(items) THEN <<>>
    ELSE << item_chunk(as_binary, items[i]) >> \o ItemChunksOf(as_binary, items, i + 1)

\* The response a call gets when it is handled alone, from what it was given:
\* its request, what its extractors returned, its body and whether it could be
\* read, and what its handler returned.
AloneResponse(c) ==
    LET n == negotiate(c.kind, c.parts)
        e == c.env.extract
    IN  IF ~n.ok THEN n.response
        ELSE IF e # <<>> /\ ~Last(e).ok
        THEN rejection_response(c.kind, n.binary, Last(e).error)
        ELSE LET d == decode(c.kind, c.parts, c.body, c.env.read # "failed", n.binary)
             IN  IF d.outcome = "err" THEN d.response
                 ELSE IF c.handler_calls = 0 THEN NoResponse
                 ELSE IF c.kind = "unary" THEN unary_response(n.binary, c.produced[1])
                 ELSE [stream_response_head(n.binary) EXCEPT !.body =
                          ItemChunksOf(n.binary, c.produced, 1)
                              \o << end_stream_response(n.binary) >>]

IsUnaryGet(c) == c.kind = "unary" /\ c.parts.method = "GET"

\* The extractors and the handler of two calls behaved as deterministic ones
\* do: the extractors that ran in both returned the same, and the handlers, if
\* both ran on the same message, returned the same.
Deterministic(c1, c2) ==
    /\ \A k \in 1..Len(c1.env.extract) :
          k <= Len(c2.env.extract) => c1.env.extract[k] = c2.env.extract[k]
    /\ (c1.handler_calls = 1 /\ c2.handler_calls = 1 /\ c1.proto_req = c2.proto_req)
          => c1.produced = c2.produced

SequenceOver ==
    /\ kind = "stream"
    /\ handler_calls = 1
    /\ \/ pc = "stream_end"
       \/ pc = "done"

\* C31: with a consumer that keeps polling the body, the body of a
\* server-streaming response whose sequence has ended, or has produced an error
\* item, eventually reports its end; and from the end-of-stream frame on nothing
\* further is asked of the producer.
C31_BodyCompletes ==
    /\ SequenceOver ~> env.ended
    /\ [][ (kind = "stream" /\ pc = "done") => requested' = requested ]_vars

\* The body of a stream whose first item was an error has ended; the producer
\* was asked once and not again.
C31_Witness ==
    /\ kind = "stream"
    /\ env.ended
    /\ Len(produced) = 1
    /\ ~produced[1].ok
    /\ requested = 1
    /\ Len(response.body) = 2

\* The body of a stream whose sequence ended after one message has ended.
C31_WitnessEnded ==
    /\ kind = "stream"
    /\ env.ended
    /\ Len(produced) = 1
    /\ produced[1].ok
    /\ requested = 2

====
